---- MODULE Spec2Model ----
(***************************************************************************)
(* lazyccg: the polling session monitor of cmd/lazyccg/main.go.            *)
(*                                                                         *)
(* Go strings are TLA+ strings (TLC evaluates Len, SubSeq and \o on        *)
(* them); a []string is a sequence of strings.  The bubbletea model is the *)
(* record of variables below, Update is one action per message kind, and   *)
(* the commands Update returns (poll, focus, rename, tick) are kept as     *)
(* work in flight whose completion message re-enters Update.               *)
(***************************************************************************)
EXTENDS Integers, Sequences, FiniteSets, TLC

(***************************************************************************)
(* package strings                                                         *)
(***************************************************************************)

\* strings.Contains
Contains(s, sub) ==
    \E i \in 0..(Len(s) - Len(sub)) : SubSeq(s, i + 1, i + Len(sub)) = sub

\* strings.HasPrefix
HasPrefix(s, p) == Len(s) >= Len(p) /\ SubSeq(s, 1, Len(p)) = p

\* strings.HasSuffix
HasSuffix(s, p) == Len(s) >= Len(p) /\ SubSeq(s, Len(s) - Len(p) + 1, Len(s)) = p

\* strings.LastIndex for a one-byte separator: 0-based, -1 when absent
LastIndex(s, c) ==
    LET hits == {i \in 1..Len(s) : SubSeq(s, i, i) = c}
    IN  IF hits = {} THEN -1 ELSE (CHOOSE i \in hits : \A j \in hits : j <= i) - 1

\* unicode.ToLower on the ASCII letters (the only letters the texts here use)
LowerChar(c) ==
    CASE c = "A" -> "a" [] c = "B" -> "b" [] c = "C" -> "c" [] c = "D" -> "d"
      [] c = "E" -> "e" [] c = "F" -> "f" [] c = "G" -> "g" [] c = "H" -> "h"
      [] c = "I" -> "i" [] c = "J" -> "j" [] c = "K" -> "k" [] c = "L" -> "l"
      [] c = "M" -> "m" [] c = "N" -> "n" [] c = "O" -> "o" [] c = "P" -> "p"
      [] c = "Q" -> "q" [] c = "R" -> "r" [] c = "S" -> "s" [] c = "T" -> "t"
      [] c = "U" -> "u" [] c = "V" -> "v" [] c = "W" -> "w" [] c = "X" -> "x"
      [] c = "Y" -> "y" [] c = "Z" -> "z" [] OTHER -> c

\* strings.ToLower
RECURSIVE ToLower(_)
ToLower(s) ==
    IF Len(s) <= 1 THEN LowerChar(s)
    ELSE LET h == Len(s) \div 2
         IN  ToLower(SubSeq(s, 1, h)) \o ToLower(SubSeq(s, h + 1, Len(s)))

\* strings.TrimRight(s, cutset), cutset given as a set of one-byte strings
RECURSIVE TrimRight(_, _)
TrimRight(s, cutset) ==
    IF s # "" /\ SubSeq(s, Len(s), Len(s)) \in cutset
    THEN TrimRight(SubSeq(s, 1, Len(s) - 1), cutset)
    ELSE s

\* strings.TrimLeft(s, cutset)
RECURSIVE TrimLeft(_, _)
TrimLeft(s, cutset) ==
    IF s # "" /\ SubSeq(s, 1, 1) \in cutset
    THEN TrimLeft(SubSeq(s, 2, Len(s)), cutset)
    ELSE s

\* the white space strings.TrimSpace removes (ASCII part of unicode.IsSpace)
WhiteSpace == {" ", "\t", "\n", "\r", "\f"}

\* strings.TrimSpace
TrimSpace(s) == TrimLeft(TrimRight(s, WhiteSpace), WhiteSpace)

\* strings.Join
RECURSIVE Join(_, _)
Join(elems, sep) ==
    IF Len(elems) = 0 THEN ""
    ELSE IF Len(elems) = 1 THEN elems[1]
    ELSE elems[1] \o sep \o Join(Tail(elems), sep)

\* strings.Split(s, sep) for a one-byte separator
RECURSIVE Split(_, _)
Split(s, sep) ==
    LET hits == {i \in 1..Len(s) : SubSeq(s, i, i) = sep}
    IN  IF hits = {} THEN <<s>>
        ELSE LET i == CHOOSE k \in hits : \A j \in hits : k <= j
             IN  <<SubSeq(s, 1, i - 1)>> \o Split(SubSeq(s, i + 1, Len(s)), sep)

\* strings.ReplaceAll(s, old, new) for a non-empty old
RECURSIVE ReplaceAll(_, _, _)
ReplaceAll(s, old, new) ==
    IF Len(s) < Len(old) THEN s
    ELSE IF SubSeq(s, 1, Len(old)) = old
         THEN new \o ReplaceAll(SubSeq(s, Len(old) + 1, Len(s)), old, new)
         ELSE SubSeq(s, 1, 1) \o ReplaceAll(SubSeq(s, 2, Len(s)), old, new)

\* Go's < on strings: byte-wise lexicographic order, on the characters used here
CharOrder == " $%+-./0123456789>?@ABCDEFGHIJKLMNOPQRSTUVWXYZ_abcdefghijklmnopqrstuvwxyz"

CharRank(c) ==
    LET hits == {i \in 1..Len(CharOrder) : SubSeq(CharOrder, i, i) = c}
    IN  IF hits = {} THEN 0 ELSE CHOOSE i \in hits : TRUE

RECURSIVE StrLess(_, _)
StrLess(a, b) ==
    IF b = "" THEN FALSE
    ELSE IF a = "" THEN TRUE
    ELSE LET ca == CharRank(SubSeq(a, 1, 1))
             cb == CharRank(SubSeq(b, 1, 1))
         IN  IF ca # cb THEN ca < cb
             ELSE StrLess(SubSeq(a, 2, Len(a)), SubSeq(b, 2, Len(b)))

(***************************************************************************)
(* AI identifier                                                           *)
(***************************************************************************)

\* the default of the -prefixes flag, after parsePrefixes
DefaultPrefixes == <<"codex", "claude", "gemini">>

\* the path basename of a token, lower-cased (main.go 746-750)
BaseLower(arg) ==
    LET idx == LastIndex(arg, "/")
    IN  ToLower(IF idx >= 0 THEN SubSeq(arg, idx + 2, Len(arg)) ELSE arg)

\* the test extractAI applies to one token and one prefix (main.go 751-758)
ArgMatches(arg, p) ==
    \/ BaseLower(arg) = p
    \/ Contains(ToLower(arg), "/" \o p \o "/")
    \/ Contains(ToLower(arg), "/" \o p)

\* the inner loop over the prefixes: the first prefix the token matches
\* (its index in prefixes), 0 when none does
FirstPrefix(arg, prefixes) ==
    LET hits == {i \in 1..Len(prefixes) : ArgMatches(arg, prefixes[i])}
    IN  IF hits = {} THEN 0 ELSE CHOOSE i \in hits : \A j \in hits : i <= j

\* the tokens of a window in scan order: processes in listed order, tokens
\* left to right; a process with an empty command line adds none
RECURSIVE ScanTokens(_)
ScanTokens(procs) ==
    IF Len(procs) = 0 THEN <<>>
    ELSE procs[1].Cmdline \o ScanTokens(Tail(procs))

\* an identifier that falls back to the first prefix when nothing matches
extractAIWithDefault(win, prefixes) ==
    LET hits == {i \in 1..Len(ScanTokens(win.ForegroundProcesses)) :
                    FirstPrefix(ScanTokens(win.ForegroundProcesses)[i], prefixes) # 0}
    IN  IF hits = {} THEN [ai |-> prefixes[1], ok |-> TRUE]
        ELSE LET tok == ScanTokens(win.ForegroundProcesses)[CHOOSE i \in hits : \A j \in hits : i <= j]
             IN  [ai |-> prefixes[FirstPrefix(tok, prefixes)], ok |-> TRUE]

\* an identifier in which the last matching token decides
extractAILastMatch(win, prefixes) ==
    LET toks == ScanTokens(win.ForegroundProcesses)
        hits == {i \in 1..Len(toks) : FirstPrefix(toks[i], prefixes) # 0}
    IN  IF hits = {} THEN [ai |-> "", ok |-> FALSE]
        ELSE LET i == CHOOSE k \in hits : \A j \in hits : k >= j
             IN  [ai |-> prefixes[FirstPrefix(toks[i], prefixes)], ok |-> TRUE]

\* extractAI: the first token, in scan order, that matches some prefix
extractAI(win, prefixes) ==
    LET toks == ScanTokens(win.ForegroundProcesses)
        hits == {i \in 1..Len(toks) : FirstPrefix(toks[i], prefixes) # 0}
    IN  IF hits = {} THEN [ai |-> "", ok |-> FALSE]
        ELSE LET i == CHOOSE k \in hits : \A j \in hits : k <= j
             IN  [ai |-> prefixes[FirstPrefix(toks[i], prefixes)], ok |-> TRUE]

(***************************************************************************)
(* Status classifier                                                       *)
(***************************************************************************)

\* the last n elements of a sequence (s[len(s)-n:] when len(s) > n)
LastN(s, n) == IF Len(s) > n THEN SubSeq(s, Len(s) - n + 1, Len(s)) ELSE s

\* the -max-lines flag's default
DefaultMaxLines == 200

\* the number of lines the fingerprint is taken from
HashLines == 5

\* the number of lines inferStatus searches
RecentLines == 10

\* the loop of normalizeLines: right-trim each line, drop the empty ones
RECURSIVE TrimLines(_)
TrimLines(lines) ==
    IF Len(lines) = 0 THEN <<>>
    ELSE LET line == TrimRight(lines[1], {"\t", " "})
         IN  (IF line = "" THEN <<>> ELSE <<line>>) \o TrimLines(Tail(lines))

normalizeLines(text, maxLines) ==
    LET t1 == ReplaceAll(text, "\r\n", "\n")
        t2 == ReplaceAll(t1, "\r", "\n")
        trimmed == TrimLines(Split(t2, "\n"))
    IN  IF maxLines > 0 /\ Len(trimmed) > maxLines
        THEN LastN(trimmed, maxLines)
        ELSE trimmed

\* a classifier with no result when no marker is found
inferStatusNoDefault(lines) ==
    IF Len(lines) = 0 THEN "IDLE"
    ELSE LET lastLine == TrimSpace(lines[Len(lines)])
             lastLineLower == ToLower(lastLine)
             recentText == ToLower(Join(LastN(lines, RecentLines), " "))
         IN  IF \/ Contains(recentText, "waiting")
                \/ Contains(recentText, "approval")
                \/ Contains(recentText, "confirm")
                \/ Contains(recentText, "press enter")
             THEN "WAITING"
             ELSE IF \/ lastLine = ">" \/ lastLine = ">>"
                     \/ HasPrefix(lastLine, "> ")
                     \/ HasPrefix(lastLine, "$ ")
                     \/ HasPrefix(lastLine, "% ")
                     \/ HasSuffix(lastLine, " >")
                     \/ Contains(lastLineLower, "context left")
                     \/ Contains(lastLineLower, "? for shortcuts")
                     \/ Contains(recentText, "accept edits")
                     \/ Contains(recentText, "crunched for")
                     \/ Contains(recentText, "brewed for")
                     \/ Contains(recentText, "worked for")
                  THEN "IDLE"
                  ELSE ""

\* a classifier that tries the prompt and idle phrases before the waiting ones
inferStatusIdleFirst(lines) ==
    IF Len(lines) = 0 THEN "IDLE"
    ELSE LET lastLine == TrimSpace(lines[Len(lines)])
             lastLineLower == ToLower(lastLine)
             recentText == ToLower(Join(LastN(lines, RecentLines), " "))
         IN  IF \/ lastLine = ">" \/ lastLine = ">>"
                \/ HasPrefix(lastLine, "> ")
                \/ HasPrefix(lastLine, "$ ")
                \/ HasPrefix(lastLine, "% ")
                \/ HasSuffix(lastLine, " >")
                \/ Contains(lastLineLower, "context left")
                \/ Contains(lastLineLower, "? for shortcuts")
                \/ Contains(recentText, "accept edits")
                \/ Contains(recentText, "crunched for")
                \/ Contains(recentText, "brewed for")
                \/ Contains(recentText, "worked for")
             THEN "IDLE"
             ELSE IF \/ Contains(recentText, "waiting")
                     \/ Contains(recentText, "approval")
                     \/ Contains(recentText, "confirm")
                     \/ Contains(recentText, "press enter")
                  THEN "WAITING"
                  ELSE "IDLE"

\* inferStatus of cmd/lazyccg/main.go
inferStatus(lines) ==
    IF Len(lines) = 0 THEN "IDLE"
    ELSE LET lastLine == TrimSpace(lines[Len(lines)])
             lastLineLower == ToLower(lastLine)
             recentText == ToLower(Join(LastN(lines, RecentLines), " "))
         IN  IF \/ Contains(recentText, "waiting")
                \/ Contains(recentText, "approval")
                \/ Contains(recentText, "confirm")
                \/ Contains(recentText, "press enter")
             THEN "WAITING"
             ELSE IF \/ lastLine = ">" \/ lastLine = ">>"
                     \/ HasPrefix(lastLine, "> ")
                     \/ HasPrefix(lastLine, "$ ")
                     \/ HasPrefix(lastLine, "% ")
                     \/ HasSuffix(lastLine, " >")
                     \/ Contains(lastLineLower, "context left")
                     \/ Contains(lastLineLower, "? for shortcuts")
                     \/ Contains(recentText, "accept edits")
                     \/ Contains(recentText, "crunched for")
                     \/ Contains(recentText, "brewed for")
                     \/ Contains(recentText, "worked for")
                  THEN "IDLE"
                  ELSE "IDLE"

(***************************************************************************)
(* Session repository and polling driver                                   *)
(***************************************************************************)

\* the comparison sortSessions hands to sort.Slice
\* a comparison that looks at titles only
SessionLessByTitle(a, b) == StrLess(a.Title, b.Title)

SessionLess(a, b) ==
    IF a.AI = b.AI THEN StrLess(a.Title, b.Title) ELSE StrLess(a.AI, b.AI)

\* one pass of the insertion sort: e moves left while it is less than its
\* left neighbour
RECURSIVE InsertSorted(_, _)
InsertSorted(sorted, e) ==
    IF Len(sorted) > 0 /\ SessionLess(e, sorted[Len(sorted)])
    THEN InsertSorted(SubSeq(sorted, 1, Len(sorted) - 1), e) \o <<sorted[Len(sorted)]>>
    ELSE sorted \o <<e>>

\* sortSessions: sort.Slice sorts a slice of at most 12 elements (6 before
\* Go 1.19) by insertion sort, which is what the lists here get
RECURSIVE sortSessions(_)
sortSessions(sessions) ==
    IF Len(sessions) = 0 THEN <<>>
    ELSE InsertSorted(sortSessions(SubSeq(sessions, 1, Len(sessions) - 1)),
                      sessions[Len(sessions)])

\* sort.Slice beyond insertion sort. Up to MaxInsertion elements it is the
\* insertion sort above; a longer slice that is already in order comes
\* back as it is; any other longer slice is partitioned around pivots, and
\* elements that compare equal may come back in any order
MaxInsertion == 12

SameKey(a, b) == ~SessionLess(a, b) /\ ~SessionLess(b, a)

InOrder(list) == \A i \in 1..Len(list) - 1 : ~SessionLess(list[i + 1], list[i])

DropAt(seq, i) == SubSeq(seq, 1, i - 1) \o SubSeq(seq, i + 1, Len(seq))

RECURSIVE Orders(_)
Orders(seq) ==
    IF Len(seq) <= 1 THEN {seq}
    ELSE UNION {{<<seq[i]>> \o rest : rest \in Orders(DropAt(seq, i))} : i \in 1..Len(seq)}

\* how many leading elements compare equal to the first
RunLen(seq) ==
    CHOOSE n \in 1..Len(seq) :
        /\ \A i \in 1..n : SameKey(seq[1], seq[i])
        /\ n < Len(seq) => ~SameKey(seq[1], seq[n + 1])

\* every order of an ordered slice in which equal elements are permuted
RECURSIVE TieOrders(_)
TieOrders(seq) ==
    IF Len(seq) = 0 THEN {<<>>}
    ELSE LET n == RunLen(seq)
         IN  {run \o rest : run \in Orders(SubSeq(seq, 1, n)),
                            rest \in TieOrders(SubSeq(seq, n + 1, Len(seq)))}

\* what sortSessions can return
SortOutcomes(list) ==
    IF Len(list) <= MaxInsertion THEN {sortSessions(list)}
    ELSE IF InOrder(list) THEN {list}
    ELSE TieOrders(sortSessions(list))

\* the three nested loops of loadSessions: every window with its tab, in
\* listing order
RECURSIVE TabWindows(_)
TabWindows(tabs) ==
    IF Len(tabs) = 0 THEN <<>>
    ELSE [i \in 1..Len(tabs[1].Windows) |-> [tab |-> tabs[1], win |-> tabs[1].Windows[i]]]
         \o TabWindows(Tail(tabs))

RECURSIVE AllWindows(_)
AllWindows(osWindows) ==
    IF Len(osWindows) = 0 THEN <<>>
    ELSE TabWindows(osWindows[1].Tabs) \o AllWindows(Tail(osWindows))

\* text, _ := kittyGetText(id): the error is dropped, the text is then ""
kittyGetText(world, id) ==
    IF world.text[id].ok THEN world.text[id].out ELSE ""

\* the fingerprint: the last 5 lines joined by "\n"
HashOf(lines) == Join(LastN(lines, HashLines), "\n")

\* a classifier that looks at the fingerprints only, never at the marker
StatusOfChangedOnly(lines, id, prevHashes) ==
    LET currentHash == HashOf(lines)
        hasPrev == id \in DOMAIN prevHashes
        outputChanged == hasPrev /\ currentHash # prevHashes[id]
    IN  IF outputChanged THEN "RUNNING" ELSE inferStatus(lines)

\* a classifier for which any window polled before is still at work
StatusOfSeenBefore(lines, id, prevHashes) ==
    LET recentText == ToLower(Join(LastN(lines, HashLines), " "))
        hasActiveIndicator == Contains(recentText, "ctrl+c to interrupt")
    IN  IF id \in DOMAIN prevHashes \/ hasActiveIndicator
        THEN "RUNNING" ELSE inferStatus(lines)

\* the status loadSessions gives a matched window
StatusOf(lines, id, prevHashes) ==
    LET currentHash == HashOf(lines)
        hasPrev == id \in DOMAIN prevHashes
        outputChanged == hasPrev /\ currentHash # prevHashes[id]
        recentText == ToLower(Join(LastN(lines, HashLines), " "))
        hasActiveIndicator == Contains(recentText, "ctrl+c to interrupt")
    IN  IF outputChanged \/ hasActiveIndicator THEN "RUNNING" ELSE inferStatus(lines)

\* the title of a session: window title, else tab title, else cwd
TitleOf(tw) ==
    IF tw.win.Title # "" THEN tw.win.Title
    ELSE IF tw.tab.Title # "" THEN tw.tab.Title
    ELSE tw.win.Cwd

\* the session built for one matched window
SessionOf(tw, world, prefixes, maxLines, prevHashes) ==
    LET lines == normalizeLines(kittyGetText(world, tw.win.ID), maxLines)
    IN  [TabID      |-> tw.tab.ID,
         WindowID   |-> tw.win.ID,
         Title      |-> TitleOf(tw),
         AI         |-> extractAI(tw.win, prefixes).ai,
         Status     |-> StatusOf(lines, tw.win.ID, prevHashes),
         Lines      |-> lines,
         Cwd        |-> tw.win.Cwd,
         OutputHash |-> HashOf(lines)]

\* loadSessions after a successful kittyList: the sorted sessions and the new
\* fingerprint table (a later window with the same id overwrites an earlier)
loadSessions(world, prefixes, maxLines, prevHashes) ==
    LET all == AllWindows(world.osWindows)
        matched == SelectSeq(all, LAMBDA tw : extractAI(tw.win, prefixes).ok)
        found == [i \in 1..Len(matched) |->
                     SessionOf(matched[i], world, prefixes, maxLines, prevHashes)]
        ids == {found[i].WindowID : i \in 1..Len(found)}
        lastOf(id) == CHOOSE i \in 1..Len(found) :
                         /\ found[i].WindowID = id
                         /\ \A j \in 1..Len(found) : found[j].WindowID = id => j <= i
    IN  [sessions |-> sortSessions(found),
         hashes   |-> [id \in ids |-> found[lastOf(id)].OutputHash]]

(***************************************************************************)
(* The program's state                                                     *)
(***************************************************************************)

VARIABLES
    selected,        \* model.selected
    sessions,        \* model.sessions
    err,             \* model.err ("" is nil)
    lastUpdate,      \* model.lastUpdate (0 is the zero time)
    renaming,        \* model.renaming
    renameInput,     \* model.renameInput ("" is nil)
    focusedPanel,    \* model.focusedPanel: 0 = Sessions, 1 = Status
    statusFilter,    \* model.statusFilter ("" = no filter)
    statusSelected,  \* model.statusSelected
    prevHashes,      \* model.prevHashes
    inflight,        \* the polls issued and not yet delivered, in issue order:
                     \* each is the prevHashes its refreshCmd closure captured
    pending,         \* the focusCmd and renameCmd commands running: their kinds
    cmd,             \* the tea.Cmd the last call of Update (or Init) returned
    quit,            \* tea.Quit was returned: the program is over
    renameTarget,    \* history: the window id selected when rename started
    input,           \* the argument of a function applied on its own
    result,          \* and what it returned
    delivered        \* history: the last sessionsMsg handed to Update

modelVars == <<selected, sessions, err, lastUpdate, renaming, renameInput,
               focusedPanel, statusFilter, statusSelected, prevHashes>>
harness == <<input, result>>
vars == <<modelVars, inflight, pending, cmd, quit,
          renameTarget, harness, delivered>>

(***************************************************************************)
(* Bounds of the exploration                                               *)
(***************************************************************************)

\* window ids are 1..MaxWin
MaxWin == 2
\* polls in flight at once
MaxInFlight == 1
\* focus and rename commands running at once
MaxCmds == 1
\* length of the rename buffer
MaxInput == 2
\* readings of the clock are 1..MaxTime
MaxTime == 1

WinIDs == 1..MaxWin
Times == 1..MaxTime

(***************************************************************************)
(* What the terminal can answer to a poll                                  *)
(***************************************************************************)

MkWin(id, title, cwd, cmdline) ==
    [ID |-> id, Title |-> title, Cwd |-> cwd,
     ForegroundProcesses |-> <<[Pid |-> id, Cwd |-> cwd, Cmdline |-> cmdline]>>]

\* a window id with no window
Absent == [present |-> FALSE]

\* a listing with one tab per window: slot[id] is Absent or holds the window
WorldOf(slot, text) ==
    LET present == SelectSeq([i \in 1..MaxWin |-> i], LAMBDA i : slot[i].present)
    IN  [osWindows |-> <<[Tabs |-> [k \in 1..Len(present) |->
                            [ID |-> present[k], Title |-> "tab",
                             Windows |-> <<slot[present[k]].win>>]]]>>,
         text |-> text]

\* the titles window id can have: sorting puts window 2 first
UITitles(id) == IF id = 1 THEN {"b"} ELSE {"a"}
UICmdlines == {<<"claude">>, <<"/bin/zsh">>}
UITexts == {[ok |-> TRUE, out |-> "waiting\n"],
            [ok |-> TRUE, out |-> "\n"],
            [ok |-> FALSE, out |-> ""]}

UISlots(id) ==
    {Absent} \cup {[present |-> TRUE, win |-> MkWin(id, t, "/w", c)] :
                       t \in UITitles(id), c \in UICmdlines}

UIWorlds ==
    {WorldOf(slot, text) :
        slot \in {f \in [WinIDs -> UNION {UISlots(id) : id \in WinIDs}] :
                     \A id \in WinIDs : f[id] \in UISlots(id)},
        text \in [WinIDs -> UITexts]}

\* the fingerprints of these texts, and the tables made of them
UIHashes ==
    {HashOf(normalizeLines(IF t.ok THEN t.out ELSE "", DefaultMaxLines)) : t \in UITexts}

UIPrevTables == UNION {[S -> UIHashes] : S \in SUBSET WinIDs}

\* what loadSessions returns, by the table the poll was issued with
\* A poll result is a finished value: every message, fingerprint table and
\* session record of the table is built in full before any handler reads it.
Evaluated(table) ==
    \A prev \in DOMAIN table : \A msg \in table[prev] :
        /\ msg = msg
        /\ msg.hashes = msg.hashes
        /\ \A k \in DOMAIN msg.sessions : msg.sessions[k] = msg.sessions[k]

UIResults ==
    LET table == [prev \in UIPrevTables |->
                    {loadSessions(w, DefaultPrefixes, DefaultMaxLines, prev) : w \in UIWorlds}] @@ <<>>
    IN  IF Evaluated(table) THEN table ELSE <<>>

\* the errors kittyList returns
ListErrors == {"kitty @ ls: exit status 1", "json parse: unexpected end of JSON input"}
\* the error of a failed focus-window or set-window-title
ExecError == "exit status 1"

(***************************************************************************)
(* model.filteredSessions, model.availableStatuses                         *)
(***************************************************************************)

\* a filter that stops at the first session it keeps
FilterFirstMatch(list, filter) ==
    IF filter = "" THEN list
    ELSE LET kept == SelectSeq(list, LAMBDA s : s.Status = filter)
         IN  IF Len(kept) = 0 THEN kept ELSE <<kept[1]>>

FilterBy(list, filter) ==
    IF filter = "" THEN list ELSE SelectSeq(list, LAMBDA s : s.Status = filter)

filteredSessions == FilterBy(sessions, statusFilter)

statusOrder == <<"RUNNING", "IDLE", "WAITING", "DONE">>

StatusesOf(list) ==
    SelectSeq(statusOrder, LAMBDA st : \E i \in 1..Len(list) : list[i].Status = st)

availableStatuses == StatusesOf(sessions)

\* the guard of focus, rename-start and rename-confirm: the index is valid
ValidIndex(list, idx) == Len(list) > 0 /\ idx >= 0 /\ idx < Len(list)

(***************************************************************************)
(* Init: the model main() builds, and the commands model.Init() returns    *)
(***************************************************************************)

\* no sessionsMsg was handed to Update yet, and the one that was
NoneDelivered == [some |-> FALSE, late |-> 0]
Delivered(msg) ==
    [some |-> TRUE, sessions |-> msg.sessions, hashes |-> msg.hashes,
     late |-> 0, stale |-> FALSE, moved |-> FALSE]

\* the history after the i-th poll in flight delivered msg. The polls in
\* flight are in issue order, so those issued before the latest-issued poll
\* that was delivered are the first `late` of them; the poll delivered is
\* `stale` when it is one of those, and the table `moved` when the one the
\* poll captured is no longer the one the model holds
DeliveredAt(msg, i) ==
    [some |-> TRUE, sessions |-> msg.sessions, hashes |-> msg.hashes,
     late |-> IF i <= delivered.late THEN delivered.late - 1 ELSE i - 1,
     stale |-> i <= delivered.late,
     moved |-> inflight[i] # prevHashes]

\* the history after the i-th poll in flight ended with an error
FailedAt(i) ==
    [delivered EXCEPT !.late = IF i <= @ THEN @ - 1 ELSE @]

NoCmd == [type |-> "nil"]
QuitCmd == [type |-> "quit"]
FocusCmd(id) == [type |-> "focus", windowID |-> id]
RenameCmd(id, title) == [type |-> "rename", windowID |-> id, title |-> title]
PollAndTick == [type |-> "refresh+tick"]

InitModel ==
    /\ selected = 0
    /\ sessions = <<>>
    /\ err = ""
    /\ lastUpdate = 0
    /\ renaming = FALSE
    /\ renameInput = ""
    /\ focusedPanel = 0
    /\ statusFilter = ""
    /\ statusSelected = 0
    /\ prevHashes = <<>>

Init ==
    /\ InitModel
    /\ inflight = <<prevHashes>>
    /\ pending = <<>>
    /\ cmd = PollAndTick
    /\ quit = FALSE
    /\ renameTarget = 0
    /\ input = [fn |-> "none"]
    /\ result = [done |-> FALSE]
    /\ delivered = NoneDelivered

(***************************************************************************)
(* Update, tea.KeyMsg while renaming                                       *)
(***************************************************************************)

KeepSessions == UNCHANGED <<sessions, prevHashes, err, lastUpdate>>
KeepBrowse == UNCHANGED <<selected, focusedPanel, statusFilter, statusSelected>>
KeepRename == UNCHANGED <<renaming, renameInput, renameTarget>>
KeepWork == UNCHANGED <<inflight, pending>>

\* the window the rename command of KeyEnter is given
RenameWindow(list, idx) == list[idx + 1].WindowID

RenameEnter ==
    /\ ~quit /\ renaming
    /\ IF ValidIndex(filteredSessions, selected)
       THEN /\ Len(pending) < MaxCmds
            /\ cmd' = RenameCmd(RenameWindow(filteredSessions, selected), renameInput)
            /\ pending' = Append(pending, "rename")
       ELSE /\ cmd' = NoCmd
            /\ UNCHANGED pending
    /\ renaming' = FALSE
    /\ renameInput' = ""
    /\ UNCHANGED <<renameTarget, inflight, quit, harness, delivered>>
    /\ KeepSessions /\ KeepBrowse

\* an Esc that leaves the dialogue and keeps what was typed
RenameEscKeepsBuffer ==
    /\ ~quit /\ renaming
    /\ renaming' = FALSE
    /\ cmd' = NoCmd
    /\ UNCHANGED <<renameInput, renameTarget, quit, harness, delivered>>
    /\ KeepSessions /\ KeepBrowse /\ KeepWork

RenameEsc ==
    /\ ~quit /\ renaming
    /\ renaming' = FALSE
    /\ renameInput' = ""
    /\ cmd' = NoCmd
    /\ UNCHANGED <<renameTarget, quit, harness, delivered>>
    /\ KeepSessions /\ KeepBrowse /\ KeepWork

\* a backspace that empties the buffer
RenameBackspaceClears ==
    /\ ~quit /\ renaming
    /\ renameInput' = ""
    /\ cmd' = NoCmd
    /\ UNCHANGED <<renaming, renameTarget, quit, harness, delivered>>
    /\ KeepSessions /\ KeepBrowse /\ KeepWork

RenameBackspace ==
    /\ ~quit /\ renaming
    /\ renameInput' = IF Len(renameInput) > 0
                      THEN SubSeq(renameInput, 1, Len(renameInput) - 1)
                      ELSE renameInput
    /\ cmd' = NoCmd
    /\ UNCHANGED <<renaming, renameTarget, quit, harness, delivered>>
    /\ KeepSessions /\ KeepBrowse /\ KeepWork

RenameSpace ==
    /\ ~quit /\ renaming
    /\ Len(renameInput) < MaxInput
    /\ renameInput' = renameInput \o " "
    /\ cmd' = NoCmd
    /\ UNCHANGED <<renaming, renameTarget, quit, harness, delivered>>
    /\ KeepSessions /\ KeepBrowse /\ KeepWork

\* the keys that arrive as KeyRunes
RuneKeys == {"q"}

\* a rename mode in which the rune q is still the quit key
RenameRunesAsCommands(keys) ==
    /\ ~quit /\ renaming
    /\ Len(renameInput) < MaxInput
    /\ \E r \in keys :
          IF r = "q"
          THEN /\ cmd' = QuitCmd
               /\ quit' = TRUE
               /\ UNCHANGED renameInput
          ELSE /\ renameInput' = renameInput \o r
               /\ cmd' = NoCmd
               /\ UNCHANGED quit
    /\ UNCHANGED <<renaming, renameTarget, harness, delivered>>
    /\ KeepSessions /\ KeepBrowse /\ KeepWork

\* tea.KeyRunes with one of these runes
RenameRunesOf(keys) ==
    /\ ~quit /\ renaming
    /\ Len(renameInput) < MaxInput
    /\ \E r \in keys : renameInput' = renameInput \o r
    /\ cmd' = NoCmd
    /\ UNCHANGED <<renaming, renameTarget, quit, harness, delivered>>
    /\ KeepSessions /\ KeepBrowse /\ KeepWork

RenameRunes == RenameRunesOf(RuneKeys)

\* every other key type (tab, up, down, ctrl+c): the inner switch matches
\* nothing
RenameIgnored ==
    /\ ~quit /\ renaming
    /\ cmd' = NoCmd
    /\ UNCHANGED <<quit, harness, delivered>>
    /\ KeepSessions /\ KeepBrowse /\ KeepRename /\ KeepWork

(***************************************************************************)
(* Update, tea.KeyMsg while browsing                                       *)
(***************************************************************************)

KeyQuit ==
    /\ ~quit /\ ~renaming
    /\ cmd' = QuitCmd
    /\ quit' = TRUE
    /\ UNCHANGED <<harness, delivered>>
    /\ KeepSessions /\ KeepBrowse /\ KeepRename /\ KeepWork

KeyTab ==
    /\ ~quit /\ ~renaming
    /\ focusedPanel' = (focusedPanel + 1) % 2
    /\ cmd' = NoCmd
    /\ UNCHANGED <<selected, statusFilter, statusSelected, quit, harness, delivered>>
    /\ KeepSessions /\ KeepRename /\ KeepWork

\* an "esc" that also puts the Sessions cursor back on the first row
KeyEscResetsCursor ==
    /\ ~quit /\ ~renaming
    /\ statusFilter' = ""
    /\ focusedPanel' = 0
    /\ selected' = 0
    /\ cmd' = NoCmd
    /\ UNCHANGED <<statusSelected, quit, harness, delivered>>
    /\ KeepSessions /\ KeepRename /\ KeepWork

KeyEsc ==
    /\ ~quit /\ ~renaming
    /\ statusFilter' = ""
    /\ focusedPanel' = 0
    /\ cmd' = NoCmd
    /\ UNCHANGED <<selected, statusSelected, quit, harness, delivered>>
    /\ KeepSessions /\ KeepRename /\ KeepWork

\* "enter" with the Sessions panel focused
KeyEnterSessions ==
    /\ ~quit /\ ~renaming /\ focusedPanel = 0
    /\ IF ValidIndex(filteredSessions, selected)
       THEN /\ Len(pending) < MaxCmds
            /\ cmd' = FocusCmd(filteredSessions[selected + 1].WindowID)
            /\ pending' = Append(pending, "focus")
       ELSE /\ cmd' = NoCmd
            /\ UNCHANGED pending
    /\ UNCHANGED <<inflight, quit, harness, delivered>>
    /\ KeepSessions /\ KeepBrowse /\ KeepRename

\* an "enter" that sets the chosen filter and never clears it
SetFilter(current, chosen) == chosen

\* the filter "enter" sets when the Status panel's entry chosen is valid
ToggleFilter(current, chosen) == IF current = chosen THEN "" ELSE chosen

\* an "enter" in the Status panel that leaves the Sessions cursor and the
\* focus where they are
KeyEnterStatusInPlace ==
    /\ ~quit /\ ~renaming /\ focusedPanel # 0
    /\ IF statusSelected >= 0 /\ statusSelected < Len(availableStatuses)
       THEN /\ statusFilter' = ToggleFilter(statusFilter, availableStatuses[statusSelected + 1])
            /\ UNCHANGED <<selected, focusedPanel, statusSelected>>
       ELSE KeepBrowse
    /\ cmd' = NoCmd
    /\ UNCHANGED <<quit, harness, delivered>>
    /\ KeepSessions /\ KeepRename /\ KeepWork

\* "enter" with the Status panel focused
KeyEnterStatus ==
    /\ ~quit /\ ~renaming /\ focusedPanel # 0
    /\ IF statusSelected >= 0 /\ statusSelected < Len(availableStatuses)
       THEN /\ statusFilter' = ToggleFilter(statusFilter, availableStatuses[statusSelected + 1])
            /\ selected' = 0
            /\ focusedPanel' = 0
            /\ UNCHANGED statusSelected
       ELSE KeepBrowse
    /\ cmd' = NoCmd
    /\ UNCHANGED <<quit, harness, delivered>>
    /\ KeepSessions /\ KeepRename /\ KeepWork

\* an "r" that takes the session from the unfiltered list
KeyRenameUnfiltered ==
    /\ ~quit /\ ~renaming
    /\ IF focusedPanel = 0 /\ ValidIndex(sessions, selected)
       THEN /\ renaming' = TRUE
            /\ renameInput' = sessions[selected + 1].Title
            /\ renameTarget' = sessions[selected + 1].WindowID
       ELSE KeepRename
    /\ cmd' = NoCmd
    /\ UNCHANGED <<quit, harness, delivered>>
    /\ KeepSessions /\ KeepBrowse /\ KeepWork

KeyRename ==
    /\ ~quit /\ ~renaming
    /\ IF focusedPanel = 0 /\ ValidIndex(filteredSessions, selected)
       THEN /\ renaming' = TRUE
            /\ renameInput' = filteredSessions[selected + 1].Title
            /\ renameTarget' = filteredSessions[selected + 1].WindowID
       ELSE KeepRename
    /\ cmd' = NoCmd
    /\ UNCHANGED <<quit, harness, delivered>>
    /\ KeepSessions /\ KeepBrowse /\ KeepWork

\* "up"/"k" in the Sessions panel
MoveUp(sel) == IF sel > 0 THEN sel - 1 ELSE sel

\* "down"/"j" in the Sessions panel
\* "down"/"j" that moves past the last row
MoveDownUnbounded(sel, n) == sel + 1

MoveDown(sel, n) == IF sel < n - 1 THEN sel + 1 ELSE sel

\* "up"/"k" in the Status panel
StatusUp(sel, n) == IF sel > 0 THEN sel - 1 ELSE n - 1

\* "down"/"j" that stops at the last status
StatusDownClamped(sel, n) == IF sel < n - 1 THEN sel + 1 ELSE sel

\* "down"/"j" in the Status panel
StatusDown(sel, n) == IF sel < n - 1 THEN sel + 1 ELSE 0

KeyUp ==
    /\ ~quit /\ ~renaming
    /\ IF focusedPanel = 0
       THEN /\ selected' = MoveUp(selected)
            /\ UNCHANGED statusSelected
       ELSE /\ statusSelected' = StatusUp(statusSelected, Len(availableStatuses))
            /\ UNCHANGED selected
    /\ cmd' = NoCmd
    /\ UNCHANGED <<focusedPanel, statusFilter, quit, harness, delivered>>
    /\ KeepSessions /\ KeepRename /\ KeepWork

KeyDown ==
    /\ ~quit /\ ~renaming
    /\ IF focusedPanel = 0
       THEN /\ selected' = MoveDown(selected, Len(filteredSessions))
            /\ UNCHANGED statusSelected
       ELSE /\ statusSelected' = StatusDown(statusSelected, Len(availableStatuses))
            /\ UNCHANGED selected
    /\ cmd' = NoCmd
    /\ UNCHANGED <<focusedPanel, statusFilter, quit, harness, delivered>>
    /\ KeepSessions /\ KeepRename /\ KeepWork

\* a key the outer switch has no case for (backspace, space, other runes)
KeyOther ==
    /\ ~quit /\ ~renaming
    /\ cmd' = NoCmd
    /\ UNCHANGED <<quit, harness, delivered>>
    /\ KeepSessions /\ KeepBrowse /\ KeepRename /\ KeepWork

\* the runes that are commands while browsing
CommandKeys == {"q", "r", "j", "k"}
RenameCommandRunes == RenameRunesOf(CommandKeys)

(***************************************************************************)
(* Update, the other messages                                              *)
(***************************************************************************)

RemoveAt(seq, i) == SubSeq(seq, 1, i - 1) \o SubSeq(seq, i + 1, Len(seq))

\* time.Now(): the clock does not go back
Now(t) == t \in Times /\ t >= lastUpdate

\* tickMsg: a new poll, with the fingerprint table of this moment, and the
\* next tick
\* a tick that issues no poll while an earlier one is still running
TickUpToIdle(limit) ==
    /\ ~quit
    /\ Len(inflight) < limit
    /\ IF Len(inflight) = 0
       THEN inflight' = Append(inflight, prevHashes) /\ cmd' = PollAndTick
       ELSE inflight' = inflight /\ cmd' = [type |-> "tick"]
    /\ UNCHANGED <<modelVars, pending, quit, renameTarget, harness, delivered>>

TickUpTo(limit) ==
    /\ ~quit
    /\ Len(inflight) < limit
    /\ inflight' = Append(inflight, prevHashes)
    /\ cmd' = PollAndTick
    /\ UNCHANGED <<modelVars, pending, quit, renameTarget, harness, delivered>>

Tick == TickUpTo(MaxInFlight)

\* the clamp of the sessionsMsg case
ClampSelected(sel, n) ==
    IF sel >= n THEN (IF n - 1 < 0 THEN 0 ELSE n - 1) ELSE sel

\* a sessionsMsg case that keeps the fingerprints of windows the result
\* does not list
OnSessionsMsgMerging(msg) ==
    /\ sessions' = msg.sessions
    /\ prevHashes' = msg.hashes @@ prevHashes
    /\ selected' = ClampSelected(selected, Len(msg.sessions))
    /\ \E t \in Times : Now(t) /\ lastUpdate' = t
    /\ UNCHANGED <<err, renaming, renameInput, focusedPanel, statusFilter, statusSelected>>

\* a sessionsMsg case that drops a filter no session of the result matches
OnSessionsMsgDropsFilter(msg) ==
    /\ sessions' = msg.sessions
    /\ prevHashes' = msg.hashes
    /\ selected' = ClampSelected(selected, Len(msg.sessions))
    /\ statusFilter' = IF \E k \in 1..Len(msg.sessions) : msg.sessions[k].Status = statusFilter
                       THEN statusFilter ELSE ""
    /\ \E t \in Times : Now(t) /\ lastUpdate' = t
    /\ UNCHANGED <<err, renaming, renameInput, focusedPanel, statusSelected>>

\* the sessionsMsg case, for the message msg
OnSessionsMsg(msg) ==
    /\ sessions' = msg.sessions
    /\ prevHashes' = msg.hashes
    /\ selected' = ClampSelected(selected, Len(msg.sessions))
    /\ \E t \in Times : Now(t) /\ lastUpdate' = t
    /\ UNCHANGED <<err, renaming, renameInput, focusedPanel, statusFilter, statusSelected>>

\* an error case that also drops the displayed snapshot
OnErrorDropsSnapshot(e) ==
    /\ err' = e
    /\ sessions' = <<>>
    /\ selected' = 0
    /\ \E t \in Times : Now(t) /\ lastUpdate' = t
    /\ UNCHANGED <<renaming, renameInput, focusedPanel,
                   statusFilter, statusSelected, prevHashes>>

\* the error case, for the error e
OnError(e) ==
    /\ err' = e
    /\ \E t \in Times : Now(t) /\ lastUpdate' = t
    /\ UNCHANGED <<selected, sessions, renaming, renameInput, focusedPanel,
                   statusFilter, statusSelected, prevHashes>>

\* a renameResultMsg case that takes the result as the new error state,
\* success included
OnRenameResultClearsError(e) ==
    /\ err' = e
    /\ \E t \in Times : Now(t) /\ lastUpdate' = t
    /\ UNCHANGED <<selected, sessions, renaming, renameInput, focusedPanel,
                   statusFilter, statusSelected, prevHashes>>

\* the renameResultMsg case
OnRenameResult(e) ==
    /\ err' = IF e # "" THEN e ELSE err
    /\ \E t \in Times : Now(t) /\ lastUpdate' = t
    /\ UNCHANGED <<selected, sessions, renaming, renameInput, focusedPanel,
                   statusFilter, statusSelected, prevHashes>>

\* a poll that reads the model's fingerprint table when it runs, not the
\* one it was issued with
PollDoneAgainstCurrent(results) ==
    /\ ~quit
    /\ \E i \in 1..Len(inflight) :
          /\ \E msg \in results[prevHashes] :
                /\ OnSessionsMsg(msg)
                /\ delivered' = DeliveredAt(msg, i)
          /\ inflight' = RemoveAt(inflight, i)
    /\ cmd' = NoCmd
    /\ UNCHANGED <<pending, quit, renameTarget, harness>>

\* a poll ends well and its sessionsMsg reaches Update; results[prev] holds
\* what loadSessions can return to a poll that captured the table prev
PollDone(results) ==
    /\ ~quit
    /\ \E i \in 1..Len(inflight) :
          /\ \E msg \in results[inflight[i]] :
                /\ OnSessionsMsg(msg)
                /\ delivered' = DeliveredAt(msg, i)
          /\ inflight' = RemoveAt(inflight, i)
    /\ cmd' = NoCmd
    /\ UNCHANGED <<pending, quit, renameTarget, harness>>

SessionsMsg == PollDone(UIResults)

\* a poll fails in kittyList, and its error reaches Update
PollFailed ==
    /\ ~quit
    /\ \E i \in 1..Len(inflight), e \in ListErrors :
          /\ OnError(e)
          /\ inflight' = RemoveAt(inflight, i)
          /\ delivered' = FailedAt(i)
    /\ cmd' = NoCmd
    /\ UNCHANGED <<pending, quit, renameTarget, harness>>

\* a focus failure that ends the program
FocusFailedQuits ==
    /\ ~quit
    /\ \E i \in 1..Len(pending) :
          /\ pending[i] = "focus"
          /\ pending' = RemoveAt(pending, i)
    /\ OnError(ExecError)
    /\ cmd' = QuitCmd
    /\ quit' = TRUE
    /\ UNCHANGED <<inflight, renameTarget, harness, delivered>>

\* a focus command fails: its error reaches Update
FocusFailed ==
    /\ ~quit
    /\ \E i \in 1..Len(pending) :
          /\ pending[i] = "focus"
          /\ pending' = RemoveAt(pending, i)
    /\ OnError(ExecError)
    /\ cmd' = NoCmd
    /\ UNCHANGED <<inflight, quit, renameTarget, harness, delivered>>

\* a focus command succeeds: its message is nil, no case of Update matches
FocusDone ==
    /\ ~quit
    /\ \E i \in 1..Len(pending) :
          /\ pending[i] = "focus"
          /\ pending' = RemoveAt(pending, i)
    /\ cmd' = NoCmd
    /\ UNCHANGED <<modelVars, inflight, quit, renameTarget, harness, delivered>>

\* a rename command ends, with or without an error
RenameResult ==
    /\ ~quit
    /\ \E i \in 1..Len(pending) :
          /\ pending[i] = "rename"
          /\ pending' = RemoveAt(pending, i)
    /\ \E e \in {"", ExecError} : OnRenameResult(e)
    /\ cmd' = NoCmd
    /\ UNCHANGED <<inflight, quit, renameTarget, harness, delivered>>

KeyMsg ==
    \/ RenameEnter \/ RenameEsc \/ RenameBackspace \/ RenameSpace
    \/ RenameRunes \/ RenameIgnored
    \/ KeyQuit \/ KeyTab \/ KeyEsc \/ KeyEnterSessions \/ KeyEnterStatus
    \/ KeyRename \/ KeyUp \/ KeyDown \/ KeyOther

Next ==
    \/ KeyMsg
    \/ Tick
    \/ SessionsMsg
    \/ PollFailed
    \/ FocusFailed
    \/ FocusDone
    \/ RenameResult

Spec == Init /\ [][Next]_vars

\* the rename dialogue typed with the runes that are commands while browsing
NextRename ==
    \/ Tick \/ SessionsMsg
    \/ KeyTab \/ KeyDown \/ KeyEnterStatus \/ KeyRename
    \/ RenameEnter \/ RenameEsc \/ RenameBackspace \/ RenameSpace
    \/ RenameCommandRunes \/ RenameIgnored
    \/ RenameResult

SpecRename == Init /\ [][NextRename]_vars

(***************************************************************************)
(* Browsing a session list that no poll replaces                           *)
(***************************************************************************)

\* the model once a first poll result has arrived and no key was pressed
InitBrowse ==
    /\ \E prev \in UIPrevTables, w \in UIWorlds :
        LET msg == loadSessions(w, DefaultPrefixes, DefaultMaxLines, prev) IN
          /\ sessions = msg.sessions
          /\ prevHashes = msg.hashes
          /\ delivered = Delivered(msg)
    /\ selected = 0
    /\ err = ""
    /\ lastUpdate \in Times
    /\ renaming = FALSE
    /\ renameInput = ""
    /\ focusedPanel = 0
    /\ statusFilter = ""
    /\ statusSelected = 0
    /\ inflight = <<>>
    /\ pending = <<>>
    /\ cmd = NoCmd
    /\ quit = FALSE
    /\ renameTarget = 0
    /\ input = [fn |-> "none"]
    /\ result = [done |-> FALSE]

NextBrowse == KeyUp \/ KeyDown \/ KeyTab \/ KeyEnterStatus \/ KeyEsc

SpecBrowse == InitBrowse /\ [][NextBrowse]_vars

(***************************************************************************)
(* Polls that overlap: a tick issues a poll while earlier ones are still   *)
(* running, and they end in any order                                      *)
(***************************************************************************)

\* polls in flight at once when ticks do not wait for them
MaxOverlap == 2

TickOverlap == TickUpTo(MaxOverlap)

NextOverlap ==
    \/ TickOverlap
    \/ SessionsMsg
    \/ PollFailed
    \/ KeyRename
    \/ RenameEsc
    \/ KeyDown

SpecOverlap == Init /\ [][NextOverlap]_vars

(***************************************************************************)
(* sortSessions applied on its own                                         *)
(***************************************************************************)

\* length of the short lists
MaxSort == 3

MkSession(id, ai, title, status) ==
    [TabID |-> 1, WindowID |-> id, Title |-> title, AI |-> ai, Status |-> status,
     Lines |-> <<>>, Cwd |-> "/w", OutputHash |-> ""]

\* five windows: two with the same AI and title, and titles whose order
\* is the opposite of the AI names' order
SortPool ==
    {MkSession(1, "claude", "a", "IDLE"), MkSession(2, "claude", "a", "WAITING"),
     MkSession(3, "claude", "b", "IDLE"), MkSession(4, "codex", "a", "RUNNING"),
     MkSession(5, "codex", "B", "IDLE")}

\* the lists of distinct windows of the pool, in every discovery order
ShortLists ==
    {l \in UNION {[1..n -> SortPool] : n \in 0..MaxSort} :
        \A i, j \in 1..Len(l) : i # j => l[i].WindowID # l[j].WindowID}

\* one window per character of the text, titled by it, in that order
ListOfTitles(text) ==
    [i \in 1..Len(text) |-> MkSession(i, "claude", SubSeq(text, i, i), "IDLE")]

\* lists longer than MaxInsertion: in order or not, with equal titles or not
LongLists ==
    {ListOfTitles(t) : t \in {"zzcdefmnopqrs", "abcdefghijklm", "aabcdefghijkl",
                              "mlkjihgfedcba", "bcdefghijklma"}}

InitSort ==
    /\ InitModel
    /\ inflight = <<>>
    /\ pending = <<>>
    /\ cmd = NoCmd
    /\ quit = FALSE
    /\ renameTarget = 0
    /\ \E l \in ShortLists \cup LongLists : input = [fn |-> "sortSessions", list |-> l]
    /\ result = [done |-> FALSE]
    /\ delivered = NoneDelivered

CallSortSessions ==
    /\ input.fn = "sortSessions"
    /\ ~result.done
    /\ \E r \in SortOutcomes(input.list) : result' = [done |-> TRUE, ret |-> r]
    /\ UNCHANGED <<modelVars, inflight, pending, cmd, quit, renameTarget, input, delivered>>

SpecSort == InitSort /\ [][CallSortSessions]_vars

(***************************************************************************)
(* filteredSessions applied on its own                                     *)
(***************************************************************************)

\* the filters Enter in the Status panel can set, and no filter
FilterChoices == {"", "RUNNING", "IDLE", "WAITING"}

\* a model that holds a sorted list of the pool's windows and a filter
InitFilter ==
    /\ \E l \in ShortLists :
          /\ sessions = sortSessions(l)
          /\ prevHashes = [id \in {l[i].WindowID : i \in 1..Len(l)} |-> ""]
          /\ delivered = Delivered([sessions |-> sortSessions(l),
                                    hashes |-> [id \in {l[i].WindowID : i \in 1..Len(l)} |-> ""]])
    /\ statusFilter \in FilterChoices
    /\ selected = 0
    /\ err = ""
    /\ lastUpdate \in Times
    /\ renaming = FALSE
    /\ renameInput = ""
    /\ focusedPanel = 0
    /\ statusSelected = 0
    /\ inflight = <<>>
    /\ pending = <<>>
    /\ cmd = NoCmd
    /\ quit = FALSE
    /\ renameTarget = 0
    /\ input = [fn |-> "filteredSessions"]
    /\ result = [done |-> FALSE]

CallFilteredSessions ==
    /\ input.fn = "filteredSessions"
    /\ ~result.done
    /\ result' = [done |-> TRUE, ret |-> filteredSessions]
    /\ UNCHANGED <<modelVars, inflight, pending, cmd, quit, renameTarget, input, delivered>>

SpecFilter == InitFilter /\ [][CallFilteredSessions]_vars

(***************************************************************************)
(* extractAI applied on its own                                            *)
(***************************************************************************)

\* segments of a path
MaxPathLen == 3
\* processes of a window, tokens of a command line
MaxProcs == 2
MaxArgs == 2

PathSegments == {"", "claude", "Codex", "claude-tools", "node"}

\* every token of 1..MaxPathLen segments joined by "/": an empty first
\* segment makes the path absolute, an empty last one ends it with "/"
PathTokens ==
    {Join(segs, "/") : segs \in UNION {[1..n -> PathSegments] : n \in 1..MaxPathLen}}

ShortTokens == {"claude", "/x/codex", "node"}
ShortCmdlines == UNION {[1..n -> ShortTokens] : n \in 0..MaxArgs}

ProcOf(cmdline) == [Pid |-> 1, Cwd |-> "/w", Cmdline |-> cmdline]

\* windows of one process with one token, and windows of up to MaxProcs
\* processes with up to MaxArgs tokens each
ExtractWindows ==
    {[ID |-> 1, Title |-> "a", Cwd |-> "/w",
      ForegroundProcesses |-> <<ProcOf(<<t>>)>>] : t \in PathTokens}
    \cup
    {[ID |-> 1, Title |-> "a", Cwd |-> "/w",
      ForegroundProcesses |-> [k \in 1..n |-> ProcOf(cs[k])]] :
        n \in 0..MaxProcs, cs \in [1..MaxProcs -> ShortCmdlines]}

\* the prefix lists: every order of every non-empty choice of these names
PrefixNames == {"codex", "claude", "gemini"}
PrefixLists ==
    {ps \in UNION {[1..n -> PrefixNames] : n \in 1..Cardinality(PrefixNames)} :
        \A i, j \in 1..Len(ps) : i # j => ps[i] # ps[j]}

InitExtract ==
    /\ InitModel
    /\ inflight = <<>>
    /\ pending = <<>>
    /\ cmd = NoCmd
    /\ quit = FALSE
    /\ renameTarget = 0
    /\ \E w \in ExtractWindows, ps \in PrefixLists :
          input = [fn |-> "extractAI", win |-> w, prefixes |-> ps]
    /\ result = [done |-> FALSE]
    /\ delivered = NoneDelivered

CallExtractAI ==
    /\ input.fn = "extractAI"
    /\ ~result.done
    /\ result' = [done |-> TRUE, ret |-> extractAI(input.win, input.prefixes)]
    /\ UNCHANGED <<modelVars, inflight, pending, cmd, quit, renameTarget, input, delivered>>

\* the transport state in which the window is the only one and shows a text
WindowWorld(w) ==
    [osWindows |-> <<[Tabs |-> <<[ID |-> 1, Title |-> "tab", Windows |-> <<w>>]>>]>>,
     text |-> (w.ID :> [ok |-> TRUE, out |-> "waiting\n"])]

\* the first poll of a transport that shows only that window
CallLoadSessionsOnWindow ==
    /\ input.fn = "extractAI"
    /\ result.done
    /\ "sessions" \notin DOMAIN result
    /\ result' = [done |-> TRUE, ret |-> result.ret,
                  sessions |-> loadSessions(WindowWorld(input.win), input.prefixes,
                                            DefaultMaxLines, <<>>).sessions]
    /\ UNCHANGED <<modelVars, inflight, pending, cmd, quit, renameTarget, input, delivered>>

\* the transport state in which a second window, running gemini, shares
\* the tab of the window
Neighbour == MkWin(2, "n", "/w", <<"gemini">>)
NeighbourWorld(w) ==
    [osWindows |-> <<[Tabs |-> <<[ID |-> 1, Title |-> "tab",
                                  Windows |-> <<w, Neighbour>>]>>]>>,
     text |-> (w.ID :> [ok |-> TRUE, out |-> "waiting\n"])
              @@ (Neighbour.ID :> [ok |-> TRUE, out |-> "waiting\n"])]

\* the first poll of a transport that shows the window and its neighbour
CallLoadSessionsBesideNeighbour ==
    /\ input.fn = "extractAI"
    /\ result.done
    /\ "sessions" \in DOMAIN result
    /\ "beside" \notin DOMAIN result
    /\ result' = [done |-> TRUE, ret |-> result.ret, sessions |-> result.sessions,
                  beside |-> loadSessions(NeighbourWorld(input.win), input.prefixes,
                                          DefaultMaxLines, <<>>).sessions]
    /\ UNCHANGED <<modelVars, inflight, pending, cmd, quit, renameTarget, input, delivered>>

NextExtract ==
    CallExtractAI \/ CallLoadSessionsOnWindow \/ CallLoadSessionsBesideNeighbour

SpecExtract == InitExtract /\ [][NextExtract]_vars

(***************************************************************************)
(* loadSessions applied on its own: one window, its text, a fingerprint    *)
(* table                                                                   *)
(***************************************************************************)

PollTexts ==
    {"",
     " \n\t\n",
     "Executing command...\nReading files...\n",
     "Task completed successfully\n",
     "Processing...\nWaiting for user input\n",
     "Changes ready\r\nPress enter to approve\r\n",
     "Running tests\nctrl+c to interrupt\n",
     "Waiting for approval (Ctrl+C to interrupt)\n",
     "build finished\n$ \n",
     "all done\n> next\n",
     "output\n>\n",
     "1\n2\n3\n4\n5\nlast\n",
     "waiting\n1\n2\n3\n4\n5\n",
     "confirm\n1\n2\n3\n4\n5\n6\n7\n8\n9\n10\n",
     "Waiting for approval\nWorked for 3s\n> \n"}

PollTextOutcomes ==
    {[ok |-> TRUE, out |-> t] : t \in PollTexts} \cup {[ok |-> FALSE, out |-> ""]}

PollHashes == {HashOf(normalizeLines(t, DefaultMaxLines)) : t \in PollTexts}

\* no entry for the window, or one of the fingerprints
PollPrevTables == {<<>>} \cup {(1 :> h) : h \in PollHashes}

PollWorld(t) ==
    [osWindows |-> <<[Tabs |-> <<[ID |-> 1, Title |-> "tab",
                                  Windows |-> <<MkWin(1, "a", "/w", <<"claude">>)>>]>>]>>,
     text |-> (1 :> t)]

InitPoll ==
    /\ InitModel
    /\ inflight = <<>>
    /\ pending = <<>>
    /\ cmd = NoCmd
    /\ quit = FALSE
    /\ renameTarget = 0
    /\ \E t \in PollTextOutcomes, prev \in PollPrevTables :
          input = [fn |-> "loadSessions", world |-> PollWorld(t), prev |-> prev]
    /\ result = [done |-> FALSE]
    /\ delivered = NoneDelivered

CallLoadSessions ==
    /\ input.fn = "loadSessions"
    /\ ~result.done
    /\ result' = [done |-> TRUE,
                  ret |-> loadSessions(input.world, DefaultPrefixes, DefaultMaxLines, input.prev)]
    /\ UNCHANGED <<modelVars, inflight, pending, cmd, quit, renameTarget, input, delivered>>

\* the result is delivered and the next tick polls again: the sessionsMsg
\* case stores the returned table, refreshCmd hands it to the next call
PollAgain ==
    /\ input.fn = "loadSessions"
    /\ result.done
    /\ "last" \notin DOMAIN input
    /\ \E t \in PollTextOutcomes :
          input' = [fn |-> "loadSessions", world |-> PollWorld(t),
                    prev |-> result.ret.hashes, last |-> result.ret.sessions]
    /\ result' = [done |-> FALSE]
    /\ UNCHANGED <<modelVars, inflight, pending, cmd, quit, renameTarget, delivered>>

NextPoll == CallLoadSessions \/ PollAgain

SpecPoll == InitPoll /\ [][NextPoll]_vars

(***************************************************************************)
(* Properties                                                              *)
(***************************************************************************)

\* the Sessions selection points into the list, or is 0 on an empty list
SelectionIn(list) ==
    \/ Len(list) = 0 /\ selected = 0
    \/ 0 <= selected /\ selected < Len(list)

\* C1: in every reachable state of the event loop the Sessions selection
\* index satisfies 0 <= selected < len(filteredSessions()), or is 0 when
\* the filtered list is empty, also after a poll result shrinks the
\* filtered list under an active status filter.
C1_SelectedAlwaysInFiltered == SelectionIn(filteredSessions)

\* C2: confirming a rename (Enter while renaming) emits the rename-window
\* command for the window that was selected when "r" started the rename,
\* with the buffer as the new title, and returns to browsing, whatever
\* poll results arrived in between.
C2_RenameHitsWindowOfStart ==
    [][RenameEnter => /\ cmd' = RenameCmd(renameTarget, renameInput)
                      /\ renaming' = FALSE]_vars

\* the sessions a lone loadSessions call returned
Returned == IF result.done /\ input.fn = "loadSessions"
            THEN {result.ret.sessions[i] : i \in 1..Len(result.ret.sessions)}
            ELSE {}

\* the window of the call had no fingerprint before it
NoPrevious(s) == s.WindowID \notin DOMAIN input.prev

\* C3: a matched window with empty content (no non-empty line, or a failed
\* read of its text) gets status IDLE from the poll, with no previous
\* fingerprint, a previous empty one or a previous non-empty one.
C3_EmptyContentIsIdle ==
    \A s \in Returned : Len(s.Lines) = 0 => s.Status = "IDLE"

\* C4: an error recorded by a failed poll lasts only until the next
\* successful poll result: once a sessionsMsg has been delivered to Update
\* the error state no longer holds the earlier error.
C4_SuccessfulPollClearsError ==
    [][err # "" /\ SessionsMsg => err' # err]_vars

\* C5: delivering a failed poll to Update records the error and leaves
\* the session list, the fingerprint table, both selection indices, the
\* filter, the focused panel and the rename mode and buffer as they were.
C5_FailedPollKeepsSnapshot ==
    [][PollFailed =>
          /\ err' \in ListErrors
          /\ UNCHANGED <<sessions, prevHashes, selected, statusSelected,
                         statusFilter, focusedPanel, renaming, renameInput>>]_vars

\* a failed poll was recorded while sessions, a filter, a moved selection
\* and a rename in progress were there to be kept
C5_Witness ==
    /\ err \in ListErrors
    /\ Len(sessions) = MaxWin
    /\ statusFilter # ""
    /\ selected > 0
    /\ renaming
    /\ renameInput # ""
    /\ inflight = <<>>

\* C6: with a fixed session list, after any sequence of move-up,
\* move-down, switch-panel, status-filter toggle and clear from the
\* initial state, 0 <= selected < len(filteredSessions()), or selected is
\* 0 when the filtered list is empty.
C6_BrowsingKeepsSelectionInRange ==
    \/ filteredSessions = <<>> /\ selected = 0
    \/ selected \in 0..(Len(filteredSessions) - 1)

\* the selection was moved to the last row of a filtered list
C6_Witness ==
    /\ statusFilter # ""
    /\ Len(filteredSessions) > 1
    /\ selected = Len(filteredSessions) - 1
    /\ focusedPanel = 0

\* the last ten lines, lower-cased, as one text
RecentText(lines) == ToLower(Join(LastN(lines, RecentLines), " "))

WaitingMarker(lines) ==
    \E w \in {"waiting", "approval", "confirm", "press enter"} :
        Contains(RecentText(lines), w)

IdleMarker(lines) ==
    LET lastLine == TrimSpace(lines[Len(lines)])
    IN  \/ lastLine \in {">", ">>"}
        \/ \E pre \in {"> ", "$ ", "% "} : HasPrefix(lastLine, pre)
        \/ HasSuffix(lastLine, " >")
        \/ \E w \in {"context left", "? for shortcuts"} : Contains(ToLower(lastLine), w)
        \/ \E w \in {"accept edits", "crunched for", "brewed for", "worked for"} :
              Contains(RecentText(lines), w)

DoneMarker(lines) ==
    \E w \in {"done", "finished", "complete"} : Contains(RecentText(lines), w)

\* C7: on the first poll of a window (no previous fingerprint), non-empty
\* lines with no waiting marker, no prompt or idle marker and none of
\* done, finished, complete are classified RUNNING.
C7_NoMarkerFirstPollIsRunning ==
    \A s \in Returned :
        (/\ NoPrevious(s)
         /\ Len(s.Lines) > 0
         /\ ~WaitingMarker(s.Lines)
         /\ ~IdleMarker(s.Lines)
         /\ ~DoneMarker(s.Lines)) => s.Status = "RUNNING"

\* C8: on the first poll of a window (no previous fingerprint), lines
\* whose recent text contains done, finished or complete in any case, and
\* no waiting marker and no prompt or idle marker, are classified DONE.
C8_DoneMarkerFirstPollIsDone ==
    \A s \in Returned :
        (/\ NoPrevious(s)
         /\ Len(s.Lines) > 0
         /\ DoneMarker(s.Lines)
         /\ ~WaitingMarker(s.Lines)
         /\ ~IdleMarker(s.Lines)) => s.Status = "DONE"

\* the tokens of the window a lone extractAI call looked at, in scan order
Scanned == IF input.fn = "extractAI" THEN ScanTokens(input.win.ForegroundProcesses)
           ELSE <<>>

Configured == IF input.fn = "extractAI"
              THEN {input.prefixes[i] : i \in 1..Len(input.prefixes)}
              ELSE {}

\* C9: for every token t and configured prefix p, with any other prefixes
\* configured in any order, if the lower-cased basename of t equals p then
\* extractAI on a window whose first scanned token is t returns (p, true).
C9_BasenameMatchWins ==
    result.done /\ Len(Scanned) > 0 =>
        \A p \in Configured :
            BaseLower(Scanned[1]) = p => result.ret = [ai |-> p, ok |-> TRUE]

\* p is the basename of the token or one whole component of its path
WholeComponent(arg, p) ==
    \/ BaseLower(arg) = p
    \/ Contains(ToLower(arg), "/" \o p \o "/")
    \/ HasSuffix(ToLower(arg), "/" \o p)

\* C10: extractAI reports a match for p only on a token whose lower-cased
\* basename is p or that holds p as a whole path component ("/p/" inside,
\* or "/p" at the end); a window with no such token yields ("", false).
C10_MatchOnlyWholeComponent ==
    result.done /\ input.fn = "extractAI" =>
        /\ result.ret.ok =>
              \E i \in 1..Len(Scanned) : WholeComponent(Scanned[i], result.ret.ai)
        /\ (\A i \in 1..Len(Scanned) : \A p \in Configured : ~WholeComponent(Scanned[i], p))
              => result.ret = [ai |-> "", ok |-> FALSE]

\* the window of a lone extractAI call runs nothing with a command line
NoTokens == input.fn = "extractAI" /\ Scanned = <<>>

\* C11: for a window with no foreground process, or whose processes all
\* have empty command lines, extractAI returns not-found for every prefix
\* list, and the poll creates no session for the window.
C11_NoCommandLineNoSession ==
    result.done /\ NoTokens =>
        /\ result.ret = [ai |-> "", ok |-> FALSE]
        /\ "sessions" \in DOMAIN result => result.sessions = <<>>

\* processes with empty command lines were scanned for three prefixes and
\* the window was polled
C11_Witness ==
    /\ result.done /\ NoTokens
    /\ Len(input.win.ForegroundProcesses) = MaxProcs
    /\ Len(input.prefixes) = Cardinality(PrefixNames)
    /\ "sessions" \in DOMAIN result

\* the Status panel's cursor is on an entry, and the entry
OnEntry == statusSelected >= 0 /\ statusSelected < Len(availableStatuses)
Entry == availableStatuses[statusSelected + 1]

\* C12: with an unchanged session list and no active filter, confirming
\* an entry of the Status panel sets it as the filter and keeps the
\* cursor on it, switching panels keeps filter, cursor and selection, and
\* confirming the same entry again clears the filter with the Sessions
\* selection at 0.
C12_ToggleTwiceClearsFilter ==
    [][/\ (KeyEnterStatus /\ OnEntry /\ statusFilter = "") =>
              /\ statusFilter' = Entry
              /\ selected' = 0
              /\ UNCHANGED <<statusSelected, sessions>>
       /\ KeyTab => UNCHANGED <<statusFilter, statusSelected, selected, sessions>>
       /\ (KeyEnterStatus /\ OnEntry /\ statusFilter = Entry) =>
              /\ statusFilter' = ""
              /\ selected' = 0]_vars

\* an entry was confirmed and the Status panel focused again with the
\* cursor still on the entry that is now the filter
C12_Witness ==
    /\ focusedPanel = 1
    /\ OnEntry
    /\ statusFilter = Entry
    /\ statusSelected > 0
    /\ selected = 0
    /\ Len(sessions) = MaxWin

\* the list a lone sortSessions call got and the list it returned
Unsorted == IF input.fn = "sortSessions" THEN input.list ELSE <<>>
Sorted == IF input.fn = "sortSessions" /\ result.done THEN result.ret ELSE <<>>

\* where the window is in the list
PlaceOf(list, id) == CHOOSE i \in 1..Len(list) : list[i].WindowID = id

\* C13: sortSessions keeps sessions of equal AI name and equal title in
\* the relative order in which the poll discovered their windows.
C13_SortIsStable ==
    result.done /\ input.fn = "sortSessions" =>
        \A i, j \in 1..Len(Unsorted) :
            (/\ i < j
             /\ Unsorted[i].AI = Unsorted[j].AI
             /\ Unsorted[i].Title = Unsorted[j].Title)
            => PlaceOf(Sorted, Unsorted[i].WindowID) < PlaceOf(Sorted, Unsorted[j].WindowID)

\* a is not after b by AI name, then by title when the AI names are equal
KeyLeq(a, b) ==
    \/ StrLess(a.AI, b.AI)
    \/ a.AI = b.AI /\ ~StrLess(b.Title, a.Title)

ByKey(list) == \A i, j \in 1..Len(list) : i < j => KeyLeq(list[i], list[j])

\* C14: the list sortSessions returns is a permutation of the detected
\* sessions in non-decreasing order of AI name, then title between equal
\* AI names; a list already in that order is returned as it is.
C14_SortedPermutation ==
    result.done /\ input.fn = "sortSessions" =>
        /\ Len(Sorted) = Len(Unsorted)
        /\ \A i \in 1..Len(Unsorted) : \E j \in 1..Len(Sorted) : Sorted[j] = Unsorted[i]
        /\ ByKey(Sorted)
        /\ ByKey(Unsorted) => Sorted = Unsorted

\* three windows found in an order that is not the sorted one, among them
\* two AI names and two titles under one AI name, were sorted
C14_Witness ==
    /\ result.done /\ input.fn = "sortSessions"
    /\ Len(Unsorted) = MaxSort
    /\ ~ByKey(Unsorted)
    /\ \E i, j \in 1..Len(Unsorted) : Unsorted[i].AI # Unsorted[j].AI
    /\ \E i, j \in 1..Len(Unsorted) :
          Unsorted[i].AI = Unsorted[j].AI /\ Unsorted[i].Title # Unsorted[j].Title

\* the places of the session list whose status is the filter
Kept == {i \in 1..Len(sessions) : sessions[i].Status = statusFilter}

\* the k-th of them
KeptAt(k) == CHOOSE i \in Kept : Cardinality({j \in Kept : j <= i}) = k

\* C15: filteredSessions returns exactly the sessions whose status is the
\* active filter, in their relative order, and the whole list when the
\* filter is empty; filtering its result by the same status returns the
\* same list.
C15_FilterIsProjection ==
    result.done /\ input.fn = "filteredSessions" =>
        /\ statusFilter = "" => result.ret = sessions
        /\ statusFilter # "" =>
              /\ Len(result.ret) = Cardinality(Kept)
              /\ \A k \in 1..Len(result.ret) : result.ret[k] = sessions[KeptAt(k)]
        /\ FilterBy(result.ret, statusFilter) = result.ret

\* a filter kept two sessions of three and dropped the one between them
C15_Witness ==
    /\ result.done /\ input.fn = "filteredSessions"
    /\ statusFilter # ""
    /\ Len(sessions) = MaxSort
    /\ Kept = {1, Len(sessions)}
    /\ Len(result.ret) = 2

\* C16: once a successful poll result has been delivered to Update, under
\* any interleaving of overlapping polls, the session list and the
\* fingerprint table are exactly the list and the table of that result:
\* nothing of the snapshot held before is merged in or kept.
C16_SnapshotIsLastResult ==
    delivered.some =>
        /\ sessions = delivered.sessions
        /\ prevHashes = delivered.hashes

\* a result with fewer windows than the table its own poll had captured
\* was delivered while a poll issued before that delivery is still running
C16_Witness ==
    /\ delivered.some
    /\ Len(inflight) = 1
    /\ inflight[1] # prevHashes
    /\ DOMAIN inflight[1] # {}
    /\ DOMAIN prevHashes # DOMAIN inflight[1]
    /\ Len(sessions) = 1

\* C17: Update returns the quit command only for a quit key pressed while
\* browsing; a failed poll, a failed focus, a rename result or any other
\* message returns no command and does not end the program, and as long
\* as the program has not quit, keys are accepted and so are ticks.
C17_OnlyQuitKeysQuit ==
    /\ [][(cmd' = QuitCmd \/ quit') => KeyQuit]_vars
    /\ [][(PollFailed \/ FocusFailed \/ RenameResult \/ FocusDone) =>
              (cmd' = NoCmd /\ quit' = FALSE)]_vars
    /\ [](~quit => /\ ENABLED KeyMsg
                   /\ Len(inflight) < MaxInFlight => ENABLED Tick)

\* a focus or rename failure was recorded and a tick was handled after it
C17_Witness ==
    /\ err = ExecError
    /\ ~quit
    /\ cmd = PollAndTick
    /\ renaming

StatusNames == {"RUNNING", "IDLE", "WAITING", "DONE"}

\* C18: every session a poll produces has a status that is one of RUNNING,
\* IDLE, WAITING, DONE, whatever the window text and whatever the
\* fingerprint table; the matched window always gets its session.
C18_StatusIsOneOfFour ==
    result.done /\ input.fn = "loadSessions" =>
        /\ Len(result.ret.sessions) = 1
        /\ \A s \in Returned : s.Status \in StatusNames

\* a window with text and no marker in it was classified against the
\* fingerprint of that same text
C18_Witness ==
    \E s \in Returned :
        /\ Len(s.Lines) > 1
        /\ ~WaitingMarker(s.Lines) /\ ~IdleMarker(s.Lines)
        /\ ~NoPrevious(s)
        /\ input.prev[s.WindowID] = s.OutputHash
        /\ s.Status \in StatusNames

\* C19: every tick makes Update issue exactly one new poll, which
\* captures the current fingerprint table, and schedule exactly one next
\* tick, and changes nothing of the model: while renaming, while an error
\* is recorded and while earlier polls are still running. A poll that
\* never ends stops neither the next tick nor the keys.
C19_TickAlwaysPollsAndTicks ==
    /\ [][TickOverlap =>
              /\ cmd' = PollAndTick
              /\ inflight' = inflight \o <<prevHashes>>
              /\ UNCHANGED <<modelVars, pending, quit>>]_vars
    /\ [](~quit => /\ Len(inflight) < MaxOverlap => ENABLED TickOverlap
                   /\ ENABLED (KeyRename \/ RenameEsc \/ KeyDown))

\* a tick was handled while renaming, with an error recorded and an
\* earlier poll still running
C19_Witness ==
    /\ cmd = PollAndTick
    /\ Len(inflight) = MaxOverlap
    /\ renaming
    /\ err # ""
    /\ ~quit

\* C20: in every reachable state the Status panel's selection index is
\* not negative and, when some status is present, is less than the number
\* of statuses present: also after up or down in the Status panel with an
\* empty session list, and after a poll result leaves fewer statuses.
C20_StatusSelectedInRange ==
    /\ statusSelected >= 0
    /\ Len(availableStatuses) > 0 => statusSelected < Len(availableStatuses)

\* C21: when polls overlap and end out of order, the result of a poll
\* issued earlier never replaces the session list and fingerprint table
\* installed by the result of a poll issued later.
C21_IssueOrderWins == delivered.some => ~delivered.stale

\* C21, amended: the session list and the fingerprint table follow the
\* order in which results are delivered: a result whose poll was issued
\* before the poll of the result delivered last still replaces both.
C21_DeliveryOrderWins ==
    (delivered.some /\ delivered.stale) =>
        /\ sessions = delivered.sessions
        /\ prevHashes = delivered.hashes

\* the result of an earlier poll was delivered after the result of a later
\* one, listing a window the later result did not list
C21_Witness ==
    /\ delivered.some
    /\ delivered.stale
    /\ delivered.moved
    /\ Len(sessions) = 1
    /\ inflight = <<>>

\* the window of the call had a fingerprint before it, another one than the
\* call computed
Changed(s) == ~NoPrevious(s) /\ input.prev[s.WindowID] # s.OutputHash

\* the text the call searched for the marker: the lines of the fingerprint
ActiveMarker(lines) ==
    Contains(ToLower(Join(LastN(lines, HashLines), " ")), "ctrl+c to interrupt")

\* C22: a matched window is classified RUNNING whenever a previous
\* fingerprint of its window id exists and differs from the current one, or
\* its recent text contains "ctrl+c to interrupt" in any case of letters,
\* even on unchanged text and even with waiting or idle markers in it.
C22_ChangedOrActiveIsRunning ==
    \A s \in Returned : (Changed(s) \/ ActiveMarker(s.Lines)) => s.Status = "RUNNING"

\* unchanged text with the marker in capitals next to a waiting marker
C22_Witness ==
    \E s \in Returned :
        /\ ~NoPrevious(s) /\ ~Changed(s)
        /\ ActiveMarker(s.Lines)
        /\ WaitingMarker(s.Lines)
        /\ ~Contains(Join(s.Lines, " "), "ctrl+c to interrupt")
        /\ s.Status = "RUNNING"

\* the sessions of the poll before the call, when the call is a second poll
Before == IF "last" \in DOMAIN input
          THEN {input.last[k] : k \in 1..Len(input.last)}
          ELSE {}

\* C23: for polls run one after another, a window whose text is the same in
\* two consecutive polls, with neither the active-work marker nor a waiting
\* marker in it, is classified IDLE by the second poll, whatever status the
\* first poll gave it.
C23_UnchangedNoMarkerIsIdle ==
    \A s \in Returned : \A s0 \in Before :
        (/\ s0.WindowID = s.WindowID
         /\ s0.Lines = s.Lines
         /\ ~ActiveMarker(s.Lines)
         /\ ~WaitingMarker(s.Lines)) => s.Status = "IDLE"

\* the first poll saw the text change and said RUNNING, the second says IDLE
C23_Witness ==
    \E s \in Returned : \E s0 \in Before :
        /\ s0.WindowID = s.WindowID
        /\ s0.Lines = s.Lines
        /\ Len(s.Lines) > 1
        /\ ~ActiveMarker(s.Lines) /\ ~WaitingMarker(s.Lines) /\ ~IdleMarker(s.Lines)
        /\ s0.Status = "RUNNING"
        /\ s.Status = "IDLE"

\* C24: when rule 1 does not apply (no changed fingerprint, no active-work
\* marker) and the recent text contains one of waiting, approval, confirm,
\* press enter, the status is WAITING, also when the last line looks like a
\* prompt or the text holds an idle marker: WAITING is tried before IDLE.
C24_WaitingBeforeIdle ==
    \A s \in Returned :
        (/\ ~Changed(s)
         /\ ~ActiveMarker(s.Lines)
         /\ WaitingMarker(s.Lines)) => s.Status = "WAITING"

\* a waiting marker, an idle phrase and a prompt as the last line
C24_Witness ==
    \E s \in Returned :
        /\ ~Changed(s) /\ ~ActiveMarker(s.Lines)
        /\ WaitingMarker(s.Lines)
        /\ Contains(RecentText(s.Lines), "worked for")
        /\ TrimSpace(s.Lines[Len(s.Lines)]) = ">"
        /\ s.Status = "WAITING"

\* what extractAI says of a window that runs the token alone
Alone(t) ==
    extractAI([ID |-> 1, Title |-> "a", Cwd |-> "/w",
               ForegroundProcesses |-> <<ProcOf(<<t>>)>>], input.prefixes)

\* the places, in scan order, of the tokens that match when alone
Matching == {i \in 1..Len(Scanned) : Alone(Scanned[i]).ok}

\* the sessions a poll made of the window with that id beside its neighbour
Beside(id) ==
    IF "beside" \in DOMAIN result
    THEN {result.beside[k].AI : k \in {j \in 1..Len(result.beside) :
                                          result.beside[j].WindowID = id}}
    ELSE {}

\* C25: extractAI returns the prefix matched by the earliest matching
\* token, processes taken in listed order and tokens left to right; a later
\* process or token never overrides it, and in a poll each window is judged
\* on its own processes only, whatever the window next to it runs.
C25_EarliestTokenWins ==
    result.done /\ input.fn = "extractAI" =>
        /\ IF Matching = {} THEN result.ret = [ai |-> "", ok |-> FALSE]
           ELSE result.ret = Alone(Scanned[CHOOSE i \in Matching : \A j \in Matching : i <= j])
        /\ "beside" \in DOMAIN result =>
              /\ Beside(input.win.ID) = IF result.ret.ok THEN {result.ret.ai} ELSE {}
              /\ Beside(Neighbour.ID) =
                    IF extractAI(Neighbour, input.prefixes).ok
                    THEN {extractAI(Neighbour, input.prefixes).ai} ELSE {}

\* the second token of the first process matches claude, the second process
\* matches codex, which comes first in the prefix list, and the neighbour
\* is a gemini session
C25_Witness ==
    /\ result.done /\ input.fn = "extractAI"
    /\ Len(input.win.ForegroundProcesses) = MaxProcs
    /\ Len(Scanned) > MaxArgs
    /\ 1 \notin Matching /\ 2 \in Matching /\ 3 \in Matching
    /\ Alone(Scanned[2]).ai = "claude" /\ Alone(Scanned[3]).ai = "codex"
    /\ input.prefixes[1] = "codex"
    /\ result.ret = [ai |-> "claude", ok |-> TRUE]
    /\ Beside(input.win.ID) = {"claude"} /\ Beside(Neighbour.ID) = {"gemini"}

\* a key press handled by the renaming branch of Update
RenameKey ==
    \/ RenameEnter \/ RenameEsc \/ RenameBackspace \/ RenameSpace
    \/ RenameCommandRunes \/ RenameIgnored

\* C26: while renaming, no key press changes the Sessions selection, the
\* Status selection, the active filter, the focused panel or the session
\* list, and none quits or returns a focus command; q, r, j and k are
\* appended to the buffer as characters, and Tab, the arrows and ctrl+c
\* leave the whole state as it is.
C26_RenameKeysAreText ==
    /\ [][RenameKey =>
             /\ UNCHANGED <<selected, statusSelected, statusFilter, focusedPanel, sessions>>
             /\ quit' = FALSE
             /\ cmd' \notin {QuitCmd} \cup {FocusCmd(id) : id \in WinIDs}]_vars
    /\ [][RenameCommandRunes =>
             /\ \E r \in CommandKeys : renameInput' = renameInput \o r
             /\ renaming']_vars
    /\ [][RenameIgnored => UNCHANGED <<modelVars, inflight, pending, quit>>]_vars

\* q was typed after r into an emptied buffer, with a filter active and a
\* second session hidden by it
C26_Witness ==
    /\ renaming /\ ~quit
    /\ renameInput = "rq"
    /\ statusFilter # ""
    /\ Len(filteredSessions) < Len(sessions)

\* C27: confirm in the Status panel with a valid status selection sets the
\* filter to the selected status when it differs from the active one and
\* clears it when it is the active one, and either way sets the Sessions
\* selection to 0 and the focus to the Sessions panel; with a status
\* selection out of range (no sessions, say) it changes nothing.
C27_ConfirmTogglesFilter ==
    [][KeyEnterStatus =>
          IF OnEntry
          THEN /\ statusFilter' = IF statusFilter = Entry THEN "" ELSE Entry
               /\ selected' = 0
               /\ focusedPanel' = 0
               /\ UNCHANGED <<statusSelected, sessions>>
          ELSE UNCHANGED modelVars]_vars

\* the second status listed was confirmed: it is the filter, it hides a
\* session, and the Sessions panel has the focus with its cursor at 0
C27_Witness ==
    /\ focusedPanel = 0
    /\ selected = 0
    /\ statusSelected = 1
    /\ OnEntry /\ statusFilter = Entry
    /\ Len(filteredSessions) < Len(sessions)

\* C28: while browsing with the Sessions panel focused, move-up decrements
\* the selection unless it is 0, move-down increments it unless it is
\* len(filtered) - 1 or the filtered list is empty; the index never wraps,
\* and neither key changes the filter, the focused panel or the Status
\* selection.
C28_SessionsCursorMoves ==
    [][/\ (KeyUp /\ focusedPanel = 0) =>
              /\ selected' = IF selected = 0 THEN 0 ELSE selected - 1
              /\ UNCHANGED <<statusFilter, focusedPanel, statusSelected>>
       /\ (KeyDown /\ focusedPanel = 0) =>
              /\ selected' = IF \/ filteredSessions = <<>>
                                \/ selected = Len(filteredSessions) - 1
                             THEN selected ELSE selected + 1
              /\ UNCHANGED <<statusFilter, focusedPanel, statusSelected>>]_vars

\* the statuses that some session of the unfiltered list has
Present == {sessions[k].Status : k \in 1..Len(sessions)}

\* the place of a status in the fixed order RUNNING, IDLE, WAITING, DONE
Rank(st) == CHOOSE r \in 1..4 : <<"RUNNING", "IDLE", "WAITING", "DONE">>[r] = st

\* a key pressed while browsing with the Status panel focused
StatusPanelKey(Key) == Key /\ focusedPanel = 1

\* C29: while browsing with the Status panel focused, move-down from the
\* last listed status goes to the first and move-up from the first goes to
\* the last; the list holds the statuses that some session of the
\* unfiltered list has, in the order RUNNING, IDLE, WAITING, DONE, as of
\* the key press; the keys change neither the Sessions selection nor the
\* active filter.
C29_StatusCursorWraps ==
    /\ [](/\ {availableStatuses[k] : k \in 1..Len(availableStatuses)} = Present
          /\ \A j, k \in 1..Len(availableStatuses) :
                j < k => Rank(availableStatuses[j]) < Rank(availableStatuses[k]))
    /\ [][/\ (StatusPanelKey(KeyDown) /\ statusSelected \in 0..(Cardinality(Present) - 1)) =>
                 statusSelected' = IF statusSelected = Cardinality(Present) - 1
                                   THEN 0 ELSE statusSelected + 1
          /\ (StatusPanelKey(KeyUp) /\ statusSelected \in 0..(Cardinality(Present) - 1)) =>
                 statusSelected' = IF statusSelected = 0
                                   THEN Cardinality(Present) - 1 ELSE statusSelected - 1
          /\ (StatusPanelKey(KeyDown) \/ StatusPanelKey(KeyUp)) =>
                 UNCHANGED <<selected, statusFilter, focusedPanel>>]_vars

\* two statuses are listed, the first is the active filter, and a move in
\* the Status panel has put its cursor on the last
C29_Witness ==
    /\ focusedPanel = 1
    /\ Cardinality(Present) = 2
    /\ statusSelected = 1
    /\ statusFilter = availableStatuses[1]
    /\ ~renaming /\ ~quit

\* a poll is issued, and a poll ends with a result
Issued == Len(inflight') > Len(inflight)
Answered == Len(inflight') < Len(inflight) /\ ~PollFailed

\* C30: a poll detects output change against the fingerprint table the
\* model held when the poll was issued, which is the table of the last
\* successful result delivered, empty at start, and not against the table
\* the model holds when the poll ends; polls issued before any result is
\* delivered all use the same table.
C30_PollUsesTableOfIssue ==
    /\ [](prevHashes = IF delivered.some THEN delivered.hashes ELSE <<>>)
    /\ [](~delivered.some => \A i \in 1..Len(inflight) : inflight[i] = <<>>)
    /\ [][Issued => inflight' = Append(inflight, prevHashes)]_vars
    /\ [][Answered =>
             \E i \in 1..Len(inflight) :
                /\ inflight' = RemoveAt(inflight, i)
                /\ \A k \in 1..Len(sessions') :
                      sessions'[k].Status =
                          StatusOf(sessions'[k].Lines, sessions'[k].WindowID, inflight[i])]_vars

\* the second of two polls issued at start ended after the first: it was
\* judged against the empty table, so no window it lists is RUNNING, while
\* the model held the table of the first result
C30_Witness ==
    /\ delivered.some
    /\ delivered.moved /\ ~delivered.stale
    /\ inflight = <<>>
    /\ Len(sessions) = MaxWin
    /\ \A k \in 1..Len(sessions) : sessions[k].Status # "RUNNING"

\* the window ids of the sessions the model holds
Listed == {sessions[k].WindowID : k \in 1..Len(sessions)}

\* C31: after a successful poll result is delivered, the keys of the
\* fingerprint table are exactly the window ids of the sessions of that
\* result: a window that disappears loses its entry with its session, and
\* a window that is not in the table a poll was issued with is classified
\* as one with no previous fingerprint.
C31_TableKeysAreListedWindows ==
    /\ [](DOMAIN prevHashes = Listed)
    /\ [](delivered.some =>
             DOMAIN delivered.hashes =
                 {delivered.sessions[k].WindowID : k \in 1..Len(delivered.sessions)})
    /\ [][Answered =>
             \E i \in 1..Len(inflight) :
                /\ inflight' = RemoveAt(inflight, i)
                /\ \A k \in 1..Len(sessions') :
                      sessions'[k].WindowID \notin DOMAIN inflight[i] =>
                          sessions'[k].Status =
                              StatusOf(sessions'[k].Lines, sessions'[k].WindowID, <<>>)]_vars

\* a result that no longer lists a window was delivered while a poll that
\* had captured that window's fingerprint is still running
C31_Witness ==
    /\ delivered.some
    /\ Len(sessions) = 1
    /\ Len(inflight) = 1
    /\ \E id \in DOMAIN inflight[1] : id \notin DOMAIN prevHashes /\ id \notin Listed
    /\ DOMAIN prevHashes \subseteq DOMAIN inflight[1]

\* the session list, the fingerprint table and the interaction state
Interaction ==
    <<sessions, prevHashes, selected, statusSelected, statusFilter,
      focusedPanel, renaming, renameInput>>

OnRow == selected \in 0..(Len(filteredSessions) - 1)

\* C33: while browsing, "r" enters Renaming with the buffer equal to the
\* title of the session at the selected index of the filtered list, and
\* only when the Sessions panel is focused and that index is valid; with an
\* empty filtered list or the Status panel focused it changes nothing.
C33_RenameStartSeedsTitle ==
    [][KeyRename =>
          IF focusedPanel = 0 /\ OnRow
          THEN /\ renaming'
               /\ renameInput' = filteredSessions[selected + 1].Title
               /\ UNCHANGED <<sessions, prevHashes, selected, statusSelected,
                              statusFilter, focusedPanel, err, lastUpdate>>
          ELSE UNCHANGED modelVars]_vars

\* a rename was started on the first row of a filtered list whose session
\* is not the first of the unfiltered list
C33_Witness ==
    /\ renaming /\ ~quit
    /\ focusedPanel = 0
    /\ statusFilter # ""
    /\ OnRow /\ selected = 0
    /\ renameInput = filteredSessions[1].Title
    /\ renameInput # sessions[1].Title
    /\ renameTarget = filteredSessions[1].WindowID

\* C34: while browsing with the Sessions panel focused, Enter returns a
\* focus-window command for the window id of the session at the selected
\* index of the filtered list (not of the unfiltered one) and leaves the
\* model state unchanged; with an empty filtered list it returns no command.
C34_EnterFocusesSelectedRow ==
    [][KeyEnterSessions =>
          /\ IF filteredSessions = <<>>
             THEN cmd' = NoCmd
             ELSE /\ OnRow
                  /\ cmd' = FocusCmd(filteredSessions[selected + 1].WindowID)
          /\ UNCHANGED modelVars]_vars

\* what a key of the rename dialogue leaves alone
Browsed == <<sessions, prevHashes, selected, statusSelected, statusFilter, focusedPanel>>

\* C35: Esc while renaming returns to browsing with the buffer discarded
\* and no rename command, leaving sessions, selection indices, filter and
\* focused panel unchanged; backspace removes exactly the last character
\* of a non-empty buffer, does nothing to an empty one, and stays in
\* Renaming.
C35_CancelAndDeleteLastChar ==
    [][/\ RenameEsc =>
              /\ ~renaming' /\ renameInput' = ""
              /\ cmd' = NoCmd /\ pending' = pending
              /\ UNCHANGED Browsed
       /\ RenameBackspace =>
              /\ renaming'
              /\ IF renameInput = ""
                 THEN renameInput' = ""
                 ELSE /\ Len(renameInput') = Len(renameInput) - 1
                      /\ renameInput' = SubSeq(renameInput, 1, Len(renameInput) - 1)
              /\ cmd' = NoCmd /\ pending' = pending
              /\ UNCHANGED Browsed]_vars

\* the buffer of a rename over a filtered list was emptied one character
\* at a time
C35_Witness ==
    /\ renaming /\ ~quit
    /\ renameInput = ""
    /\ statusFilter # ""
    /\ Len(sessions) = MaxWin
    /\ pending = <<>>

\* C36: while browsing, Esc from either panel sets the filter to none and
\* the focused panel to Sessions and leaves the Sessions selection, the
\* Status selection and the session list unchanged; Tab only toggles the
\* focused panel between Sessions and Status.
C36_ClearAndSwitchPanel ==
    [][/\ KeyEsc =>
              /\ statusFilter' = ""
              /\ focusedPanel' = 0
              /\ UNCHANGED <<selected, statusSelected, sessions, prevHashes,
                             renaming, renameInput, err, lastUpdate>>
       /\ KeyTab =>
              /\ focusedPanel' = 1 - focusedPanel
              /\ UNCHANGED <<selected, statusSelected, statusFilter, sessions,
                             prevHashes, renaming, renameInput, err, lastUpdate>>]_vars

\* no filter, the Sessions panel focused, and both cursors off their first
\* entries
C36_Witness ==
    /\ statusFilter = ""
    /\ focusedPanel = 0
    /\ statusSelected = 1
    /\ selected = 1
    /\ Cardinality(Present) = 2
    /\ ~renaming /\ ~quit
    /\ cmd = NoCmd

\* C37: in every reachable state the focused panel is Sessions or Status;
\* while renaming the focused panel is Sessions; and while not renaming
\* the rename buffer is empty.
C37_PanelAndBufferInvariant ==
    /\ focusedPanel \in {0, 1}
    /\ renaming => focusedPanel = 0
    /\ ~renaming => renameInput = ""

\* a rename has ended and the Status panel was focused after it
C37_Witness ==
    /\ ~renaming
    /\ renameTarget # 0
    /\ renameInput = ""
    /\ focusedPanel = 1
    /\ ~quit

\* C38: the delivery of a successful poll result changes only the session
\* list, the fingerprint table, the last-update time and, by clamping, the
\* Sessions selection: the filter, the focused panel, the Status selection
\* and the rename mode and buffer stay, so a filter stays in force even
\* when no session of the new list has its status.
C38_DeliveryKeepsInteraction ==
    [][Answered =>
          /\ UNCHANGED <<statusFilter, focusedPanel, statusSelected,
                         renaming, renameInput, err>>
          /\ sessions' = delivered'.sessions
          /\ prevHashes' = delivered'.hashes
          /\ selected' = IF selected < Len(sessions') THEN selected
                         ELSE IF Len(sessions') = 0 THEN 0 ELSE Len(sessions') - 1]_vars

\* a filter is in force that no session of the list delivered matches
C38_Witness ==
    /\ delivered.some
    /\ statusFilter # ""
    /\ sessions # <<>>
    /\ filteredSessions = <<>>
    /\ ~quit

====
